---- MODULE Spec2Model ----
(***************************************************************************)
(* Model of models/Generator.py: the two generator variants Generator1 and *)
(* Generator2 (construction, forward, inference, weight-norm lifecycle,    *)
(* receptive field).  Tensors are modelled by their shapes (channel count  *)
(* and time length); the aggregated skip is modelled symbolically as a     *)
(* vector of per-block coefficients plus the list of 1/sqrt(N) rescalings  *)
(* applied to it.                                                          *)
(***************************************************************************)
EXTENDS Integers, Sequences, FiniteSets, TLC

VARIABLES
    G1_upsample_params,  \* the dict object bound to Generator1.__init__'s default (line 39)
    G2_upsample_params,  \* the dict object bound to Generator2.__init__'s default (line 251)
    caller_params,       \* a dict object the caller keeps and passes as upsample_params
    gen,                 \* the instance the last constructor call returned (NoGen if none)
    wn,                  \* per sub-module of gen: number of weight-norm hooks attached
    init,                \* what the last constructor call did
    ret                  \* what the last method call did

vars == <<G1_upsample_params, G2_upsample_params, caller_params, gen, wn, init, ret>>

(***************************************************************************)
(* Bounds of the model.                                                    *)
(***************************************************************************)
MaxLayers == 6
MaxStacks == 3
MaxBlocks == 2
MaxFrames == 2

(***************************************************************************)
(* Python helpers.                                                         *)
(***************************************************************************)
\* dict.update: keys of u are added to d or overwrite d's
Update(d, u) ==
    [k \in (DOMAIN d) \cup (DOMAIN u) |-> IF k \in DOMAIN u THEN u[k] ELSE d[k]]

RECURSIVE Prod(_)
\* np.prod over a list of scale factors
Prod(s) == IF s = <<>> THEN 1 ELSE Head(s) * Prod(Tail(s))

RECURSIVE SumSeq(_)
\* sum(dilations)
SumSeq(s) == IF s = <<>> THEN 0 ELSE Head(s) + SumSeq(Tail(s))

\* the default value of upsample_params in both signatures
DefaultUpsampleParams == [upsample_scales |-> <<4, 4, 4, 4>>]

\* the dict a caller builds once and keeps passing
CallerUpsampleParams == [upsample_scales |-> <<2, 2>>]

\* the object bound to the parameter upsample_params in a call
ParamsObject(src, dflt) == IF src = "default" THEN dflt ELSE caller_params

(***************************************************************************)
(* Sub-modules.  A sub-module is [name, idx, conv]; conv says whether it   *)
(* is an instance of torch.nn.Conv1d / Conv2d.  Sequences of sub-modules   *)
(* are in the order torch.nn.Module.apply visits them: the children in     *)
(* registration order, each after its own children, the generator last.    *)
(***************************************************************************)
Mod(name, idx, conv) == [name |-> name, idx |-> idx, conv |-> conv]

\* a ModuleList of ResidualBlock, each owning its dilated convolution
BlockModules(listName, convName, n) ==
    [j \in 1..(2 * n + 1) |->
        IF j = 2 * n + 1 THEN Mod(listName, -1, FALSE)
        ELSE IF j % 2 = 1 THEN Mod(convName, (j - 1) \div 2, TRUE)
        ELSE Mod(listName, (j - 1) \div 2, FALSE)]

\* ModuleList([ReLU, Conv1d1x1, ReLU, Conv1d1x1])
HeadModules(listName) ==
    << Mod(listName, 0, FALSE), Mod(listName, 1, TRUE),
       Mod(listName, 2, FALSE), Mod(listName, 3, TRUE),
       Mod(listName, -1, FALSE) >>

\* the upsampling network: its convolutions, then the network itself
UpsampleModules == << Mod("upsample_net.conv", 0, TRUE), Mod("upsample_net", -1, FALSE) >>

(***************************************************************************)
(* Weight normalization.  A traversal state is [hooks, calls, raised]:     *)
(* hooks[i] is the number of weight-norm hooks on sub-module i, calls[i]   *)
(* the number of times torch.nn.utils.weight_norm was invoked on it, and   *)
(* raised the exception that ended the traversal ("none" if none did).     *)
(***************************************************************************)
\* torch.nn.utils.weight_norm(m): a second hook on the same weight raises
weight_norm(i, st) ==
    IF st.hooks[i] >= 1
    THEN [st EXCEPT !.calls[i] = @ + 1, !.raised = "RuntimeError"]
    ELSE [st EXCEPT !.calls[i] = @ + 1, !.hooks[i] = 1]

\* torch.nn.utils.remove_weight_norm(m): ValueError when m has no hook
torch_remove_weight_norm(i, st) ==
    IF st.hooks[i] = 0
    THEN [st EXCEPT !.raised = "ValueError"]
    ELSE [st EXCEPT !.hooks[i] = 0]

\* the visitor of apply_weight_norm: only Conv1d / Conv2d are normalized
_apply_weight_norm(m, i, st) ==
    IF m.conv THEN weight_norm(i, st) ELSE st

\* variant of the visitor below: no try / except around the removal
_remove_weight_norm_uncaught(m, i, st) == torch_remove_weight_norm(i, st)

\* the visitor of remove_weight_norm: try the removal, swallow ValueError
_remove_weight_norm(m, i, st) ==
    LET r == torch_remove_weight_norm(i, st)
    IN IF r.raised = "ValueError" THEN [r EXCEPT !.raised = "none"] ELSE r

RECURSIVE ApplyFrom(_, _, _)
\* torch.nn.Module.apply(_apply_weight_norm) from sub-module i on: visit
\* until a visitor raises
ApplyFrom(mods, i, st) ==
    IF i > Len(mods) \/ st.raised # "none" THEN st
    ELSE ApplyFrom(mods, i + 1, _apply_weight_norm(mods[i], i, st))

RECURSIVE RemoveFrom(_, _, _)
\* torch.nn.Module.apply(_remove_weight_norm) from sub-module i on
RemoveFrom(mods, i, st) ==
    IF i > Len(mods) \/ st.raised # "none" THEN st
    ELSE RemoveFrom(mods, i + 1, _remove_weight_norm(mods[i], i, st))

\* self.apply(_apply_weight_norm)
apply_weight_norm(mods, st) == ApplyFrom(mods, 1, st)

\* self.apply(_remove_weight_norm)
remove_weight_norm(mods, st) == RemoveFrom(mods, 1, st)

\* no hooks, no calls
PlainState(mods) ==
    [hooks |-> [i \in 1..Len(mods) |-> 0], calls |-> [i \in 1..Len(mods) |-> 0],
     raised |-> "none"]

\* models.MelGANGenerator(**kwargs) normalizes its own convolutions unless
\* constructed with use_weight_norm=False ("not to apply twice", line 88)
MelGANSelfNorm(kwargs) ==
    IF "use_weight_norm" \in DOMAIN kwargs THEN kwargs["use_weight_norm"] ELSE TRUE

\* the state of the sub-modules as built, before the generator's own apply
BuiltState(mods, net, kwargs) ==
    LET own == net = "MelGANGenerator" /\ MelGANSelfNorm(kwargs)
        n(i) == IF own /\ mods[i].name = "upsample_net.conv" THEN 1 ELSE 0
    IN [hooks |-> [i \in 1..Len(mods) |-> n(i)], calls |-> [i \in 1..Len(mods) |-> n(i)],
        raised |-> "none"]

(***************************************************************************)
(* Construction.                                                           *)
(***************************************************************************)
\* the defaults of Generator1.__init__'s signature
G1Defaults ==
    [in_channels |-> 1, out_channels |-> 1, kernel_size |-> 3, layers |-> 30,
     stacks |-> 3, aux_channels |-> 80, aux_context_window |-> 2,
     use_weight_norm |-> TRUE, use_causal_conv |-> FALSE,
     upsample_conditional_features |-> TRUE,
     upsample_net |-> "ConvInUpsampleNetwork", upsample_params |-> "default"]

\* the defaults of Generator2.__init__'s signature
G2Defaults ==
    [in_channels |-> 1, out_channels |-> 4, kernel_sizes |-> <<7, 5>>,
     layers |-> <<16, 15>>, stacks |-> <<8, 5>>, aux_channels |-> 80,
     aux_context_window |-> 2, use_weight_norm |-> TRUE,
     upsample_net |-> "ConvInUpsampleNetwork", upsample_params |-> "default"]

\* no instance: before the first constructor call, or after one that raised
NoGen ==
    [cls |-> 0, layers |-> 0, stacks |-> 0, kernel_size |-> 0,
     in_channels |-> 0, out_channels |-> 0, aux_context_window |-> 0,
     upsample_net |-> "None", upsample_kwargs |-> <<>>, upsample_factor |-> 0,
     subbands |-> 0, kernel_sizes |-> <<>>, dilations |-> <<>>]

\* before the first constructor call
NoInit ==
    [cls |-> 0, args |-> <<>>, outcome |-> "none", built |-> <<>>, calls |-> <<>>]

\* the attributes a constructor assigns on self (the sub-modules aside)
Attrs(cls) ==
    IF cls = 1
    THEN {"in_channels", "out_channels", "aux_channels", "aux_context_window",
          "layers", "stacks", "kernel_size", "upsample_factor"}
    ELSE IF cls = 2
    THEN {"in_channels", "out_channels", "aux_channels", "stacks",
          "aux_context_window", "upsample_factor"}
    ELSE {}

\* Generator1: layers_per_stack = layers // stacks
layers_per_stack(layers, stacks) == layers \div stacks

\* variant of the dilation below: the cycle length taken to be stacks, as
\* Generator2 does
Dilation1_by_stacks(layer, layers, stacks) == 2 ^ (layer % stacks)

\* Generator1: dilation = 2 ** (layer % layers_per_stack)
Dilation1(layer, layers, stacks) == 2 ^ (layer % layers_per_stack(layers, stacks))

\* Generator2: dilation = 2 ** (layer % stacks[k])
Dilation2(layer, stacks_k) == 2 ^ (layer % stacks_k)

\* Generator1: the dilations of the ResidualBlocks appended to conv_layers
ConvLayers1(layers, stacks) ==
    [i \in 1..layers |-> Dilation1(i - 1, layers, stacks)]

\* Generator2: the dilations of the ResidualBlocks appended to
\* low_conv_layers (k = 1) or up_conv_layers (k = 2)
ConvLayers2(layers, stacks, k) ==
    [i \in 1..layers[k] |-> Dilation2(i - 1, stacks[k])]

\* variant of the update below: use_weight_norm is not switched off
MelGANParams1_no_flag(a, p) ==
    Update(p, [use_final_nonlinear_activation |-> FALSE])

\* Generator1: upsample_params after the update calls that precede the
\* construction of a MelGANGenerator upsampler
MelGANParams1(a, p) ==
    Update(p, [use_weight_norm |-> FALSE, use_final_nonlinear_activation |-> FALSE])

\* Generator1: upsample_params after the in-place updates of the constructor
\* (a MelGANGenerator with aux_context_window # 0 stops at the assertion of
\* line 86, after the first update only)
UpsampleParams1(a, p) ==
    IF ~a.upsample_conditional_features THEN p
    ELSE LET p1 == Update(p, [use_causal_conv |-> a.use_causal_conv])
         IN IF a.upsample_net = "MelGANGenerator"
            THEN IF a.aux_context_window # 0 THEN p1 ELSE MelGANParams1(a, p1)
            ELSE IF a.upsample_net = "ConvInUpsampleNetwork"
                 THEN Update(p1, [aux_channels |-> a.aux_channels,
                                  aux_context_window |-> a.aux_context_window])
                 ELSE p1

\* Generator2: upsample_params after the in-place update of the constructor
UpsampleParams2(a, p) ==
    Update(p, [aux_channels |-> a.aux_channels,
               aux_context_window |-> a.aux_context_window])

\* Generator1: the sub-modules registered when apply_weight_norm runs, and
\* (pqmf = TRUE) those of the finished instance, in traversal order
Modules1(layers, upsample, pqmf) ==
    << Mod("first_conv", -1, TRUE) >>
    \o (IF upsample THEN UpsampleModules ELSE <<>>)
    \o BlockModules("conv_layers", "conv_layers.conv", layers)
    \o HeadModules("last_conv_layers")
    \o << Mod("pqmf_conv1", -1, TRUE), Mod("pqmf_conv2", -1, TRUE) >>
    \o (IF pqmf THEN << Mod("pqmf", -1, FALSE) >> ELSE <<>>)
    \o << Mod("self", -1, FALSE) >>

\* Generator2: the sub-modules of the instance, in traversal order
Modules2(low, up) ==
    << Mod("pqmf", -1, FALSE), Mod("low_first_conv", -1, TRUE),
       Mod("up_first_conv", -1, TRUE) >>
    \o UpsampleModules
    \o BlockModules("low_conv_layers", "low_conv_layers.conv", low)
    \o BlockModules("up_conv_layers", "up_conv_layers.conv", up)
    \o HeadModules("last_low_conv_layers")
    \o HeadModules("last_up_conv_layers")
    \o << Mod("self", -1, FALSE) >>

\* the sub-modules of an instance: what g.apply(fn) visits, in order
ModulesOf(g) ==
    IF g.cls = 1 THEN Modules1(Len(g.dilations[1]), g.upsample_net # "None", TRUE)
    ELSE IF g.cls = 2 THEN Modules2(Len(g.dilations[1]), Len(g.dilations[2]))
    ELSE <<>>

\* the band count of PQMF() built with no argument
PQMF_subbands == 4

\* Generator1.__init__(**a) with upsample_params bound to the dict p:
\* [outcome, built, params, gen, st]
Generator1_init(a, p) ==
    LET up == a.upsample_conditional_features
        params == UpsampleParams1(a, p)
        mods0 == Modules1(a.layers, up, FALSE)
        n0 == Len(mods0)
        st0 == BuiltState(mods0, IF up THEN a.upsample_net ELSE "None", params)
        st1 == IF a.use_weight_norm THEN apply_weight_norm(mods0, st0) ELSE st0
        \* self.pqmf = PQMF() is registered after the weight norm is applied
        grow(f) == [i \in 1..(n0 + 1) |->
                        IF i < n0 THEN f[i] ELSE IF i = n0 THEN 0 ELSE f[n0]]
        inst == [cls |-> 1,
                 layers |-> a.layers, stacks |-> a.stacks,
                 kernel_size |-> a.kernel_size,
                 in_channels |-> a.in_channels, out_channels |-> a.out_channels,
                 aux_context_window |-> a.aux_context_window,
                 upsample_net |-> IF up THEN a.upsample_net ELSE "None",
                 upsample_kwargs |-> IF up THEN params ELSE <<>>,
                 upsample_factor |-> IF up THEN Prod(params["upsample_scales"]) ELSE 1,
                 subbands |-> PQMF_subbands,
                 kernel_sizes |-> << a.kernel_size >>,
                 dilations |-> << ConvLayers1(a.layers, a.stacks) >>]
        built == << "first_conv" >>
                 \o (IF up THEN << "upsample_net" >> ELSE <<>>)
                 \o << "conv_layers", "last_conv_layers", "pqmf_conv1", "pqmf_conv2" >>
        failed(what, b, q) ==
            [outcome |-> what, built |-> b, params |-> q, gen |-> NoGen,
             st |-> PlainState(<<>>)]
    IN IF a.layers % a.stacks # 0
       THEN failed("AssertionError", <<>>, p)
       ELSE IF up /\ a.upsample_net = "MelGANGenerator" /\ a.aux_context_window # 0
       THEN failed("AssertionError", << "first_conv" >>, params)
       ELSE IF st1.raised # "none"
       THEN [failed(st1.raised, built, params) EXCEPT !.st = st1]
       ELSE [outcome |-> "ok", built |-> built \o << "pqmf" >>,
             params |-> params, gen |-> inst,
             st |-> [st1 EXCEPT !.hooks = grow(st1.hooks), !.calls = grow(st1.calls)]]

\* Generator2.__init__(**a) with upsample_params bound to the dict p
Generator2_init(a, p) ==
    LET params == UpsampleParams2(a, p)
        mods == Modules2(a.layers[1], a.layers[2])
        st0 == BuiltState(mods, a.upsample_net, params)
        st1 == IF a.use_weight_norm THEN apply_weight_norm(mods, st0) ELSE st0
        built == << "pqmf", "low_first_conv", "up_first_conv", "upsample_net",
                    "low_conv_layers", "up_conv_layers", "last_low_conv_layers",
                    "last_up_conv_layers" >>
        inst == [cls |-> 2,
                 layers |-> <<>>, stacks |-> a.stacks, kernel_size |-> <<>>,
                 in_channels |-> a.in_channels, out_channels |-> a.out_channels,
                 aux_context_window |-> a.aux_context_window,
                 upsample_net |-> a.upsample_net,
                 upsample_kwargs |-> params,
                 upsample_factor |-> Prod(params["upsample_scales"]),
                 subbands |-> a.out_channels,
                 kernel_sizes |-> a.kernel_sizes,
                 dilations |-> << ConvLayers2(a.layers, a.stacks, 1),
                                  ConvLayers2(a.layers, a.stacks, 2) >>]
    IN IF st1.raised # "none"
       THEN [outcome |-> st1.raised, built |-> built, params |-> params,
             gen |-> NoGen, st |-> st1]
       ELSE [outcome |-> "ok", built |-> built, params |-> params, gen |-> inst,
             st |-> st1]

\* nothing returned yet
NoRet ==
    [op |-> "none", outcome |-> "none", value |-> 0, x |-> -1, c |-> -1,
     checked |-> FALSE, noise |-> FALSE, fwd_x |-> -1, fwd_c |-> -1, cu |-> -1,
     out_len |-> -1, out_ch |-> -1, skips |-> <<>>]

\* g = Generator1(**a): the constructor runs as a whole; when it raises, no
\* instance comes back
NewGenerator1(a) ==
    LET r == Generator1_init(a, ParamsObject(a.upsample_params, G1_upsample_params))
    IN /\ G1_upsample_params' =
              IF a.upsample_params = "default" THEN r.params ELSE G1_upsample_params
       /\ caller_params' =
              IF a.upsample_params = "caller" THEN r.params ELSE caller_params
       /\ init' = [cls |-> 1, args |-> a, outcome |-> r.outcome, built |-> r.built,
                   calls |-> r.st.calls]
       /\ gen' = r.gen
       /\ wn' = IF r.outcome = "ok" THEN r.st.hooks ELSE <<>>
       /\ ret' = NoRet
       /\ UNCHANGED G2_upsample_params

\* g = Generator2(**a)
NewGenerator2(a) ==
    LET r == Generator2_init(a, ParamsObject(a.upsample_params, G2_upsample_params))
    IN /\ G2_upsample_params' =
              IF a.upsample_params = "default" THEN r.params ELSE G2_upsample_params
       /\ caller_params' =
              IF a.upsample_params = "caller" THEN r.params ELSE caller_params
       /\ init' = [cls |-> 2, args |-> a, outcome |-> r.outcome, built |-> r.built,
                   calls |-> r.st.calls]
       /\ gen' = r.gen
       /\ wn' = IF r.outcome = "ok" THEN r.st.hooks ELSE <<>>
       /\ ret' = NoRet
       /\ UNCHANGED G1_upsample_params

Init ==
    /\ G1_upsample_params = DefaultUpsampleParams
    /\ G2_upsample_params = DefaultUpsampleParams
    /\ caller_params = CallerUpsampleParams
    /\ gen = NoGen
    /\ wn = <<>>
    /\ init = NoInit
    /\ ret = NoRet

(***************************************************************************)
(* Weight-norm lifecycle methods and the receptive field.                  *)
(***************************************************************************)
\* g.remove_weight_norm()
RemoveWeightNorm ==
    /\ gen.cls # 0
    /\ LET mods == ModulesOf(gen)
           st == remove_weight_norm(mods, [PlainState(mods) EXCEPT !.hooks = wn])
       IN /\ wn' = st.hooks
          /\ ret' = [NoRet EXCEPT !.op = "remove_weight_norm",
                                  !.outcome = IF st.raised = "none" THEN "ok"
                                              ELSE st.raised]
    /\ UNCHANGED <<G1_upsample_params, G2_upsample_params, caller_params, gen, init>>

\* g.apply_weight_norm()
ApplyWeightNorm ==
    /\ gen.cls # 0
    /\ LET mods == ModulesOf(gen)
           st == apply_weight_norm(mods, [PlainState(mods) EXCEPT !.hooks = wn])
       IN /\ wn' = st.hooks
          /\ ret' = [NoRet EXCEPT !.op = "apply_weight_norm",
                                  !.outcome = IF st.raised = "none" THEN "ok"
                                              ELSE st.raised]
    /\ UNCHANGED <<G1_upsample_params, G2_upsample_params, caller_params, gen, init>>

\* _get_receptive_field_size(layers, stacks, kernel_size); -1 stands for the
\* AssertionError of its first line
_get_receptive_field_size(layers, stacks, kernel_size) ==
    IF layers % stacks # 0 THEN -1
    ELSE LET layers_per_cycle == layers \div stacks
             dilations == [i \in 1..layers |-> 2 ^ ((i - 1) % layers_per_cycle)]
         IN (kernel_size - 1) * SumSeq(dilations) + 1

\* g.receptive_field_size: reads self.layers, self.stacks, self.kernel_size,
\* which Generator2 never sets
ReceptiveFieldSize ==
    /\ gen.cls # 0
    /\ ret' = IF {"layers", "stacks", "kernel_size"} \subseteq Attrs(gen.cls)
              THEN [NoRet EXCEPT !.op = "receptive_field_size", !.outcome = "ok",
                        !.value = _get_receptive_field_size(gen.layers, gen.stacks,
                                                            gen.kernel_size)]
              ELSE [NoRet EXCEPT !.op = "receptive_field_size",
                                 !.outcome = "AttributeError"]
    /\ UNCHANGED <<G1_upsample_params, G2_upsample_params, caller_params, gen, wn, init>>

(***************************************************************************)
(* Collaborators of forward, by the shapes they produce.  A length of -1   *)
(* stands for "no tensor" (None on input, an exception on output).         *)
(***************************************************************************)
\* self.upsample_net(c): the conditioning stretched by the upsample factor;
\* ConvInUpsampleNetwork first consumes aux_context_window frames per edge
UpsampleNetLen(g, c) ==
    LET w == IF g.upsample_net = "ConvInUpsampleNetwork"
                /\ "aux_context_window" \in DOMAIN g.upsample_kwargs
             THEN g.upsample_kwargs["aux_context_window"] ELSE 0
    IN IF c - 2 * w <= 0 THEN -1
       ELSE (c - 2 * w) * Prod(g.upsample_kwargs["upsample_scales"])

\* pqmf.analysis: one channel in, subbands channels out, length divided
PQMF_analysis(len, subbands) == IF len < subbands THEN -1 ELSE len \div subbands

\* pqmf.synthesis: subbands channels in, one channel out, length multiplied
PQMF_synthesis(len, subbands) == len * subbands

\* ResidualBlock(x, c): the hidden length, the conditioning being added to
\* the hidden state (a length of one broadcasts)
ResidualBlockLen(x, c) ==
    IF c = -1 \/ c = x THEN x
    ELSE IF c = 1 THEN x
    ELSE IF x = 1 THEN c
    ELSE -1

\* Conv1d(cin, cout, kernel_size, stride=1, padding=padding) on length len
Conv1dLen(len, kernel_size, padding) ==
    IF len + 2 * padding - (kernel_size - 1) <= 0 THEN -1
    ELSE len + 2 * padding - (kernel_size - 1)

RECURSIVE StackLen(_, _, _)
\* for f in <stack>: x, h = f(x, c): the hidden length after n blocks
StackLen(n, x, c) ==
    IF n = 0 \/ x = -1 THEN x ELSE StackLen(n - 1, ResidualBlockLen(x, c), c)

(***************************************************************************)
(* The aggregated skip: coef[b] is the coefficient of block b's skip       *)
(* contribution h_b in the running sum, scale the list of N for which the  *)
(* sum has been multiplied by sqrt(1/N).                                   *)
(***************************************************************************)
\* the number of residual blocks of an instance
NumBlocks(g) == SumSeq([k \in 1..Len(g.dilations) |-> Len(g.dilations[k])])

\* skips = 0
ZeroSkips(g) == [coef |-> [b \in 1..NumBlocks(g) |-> 0], scale |-> <<>>]

\* skips += h, h being the skip output of block b
AddSkip(sk, b) == [sk EXCEPT !.coef[b] = @ + 1]

\* the blocks of the k-th ModuleList of residual blocks, in order; the blocks
\* of an instance are numbered through, the first list's first
StackOf(g, k) ==
    LET before == SumSeq([j \in 1..(k - 1) |-> Len(g.dilations[j])])
    IN [i \in 1..Len(g.dilations[k]) |-> before + i]

RECURSIVE AccumulateFrom(_, _, _)
\* the rest of the loop below, from the i-th block of the stack on
AccumulateFrom(ids, i, sk) ==
    IF i > Len(ids) THEN sk ELSE AccumulateFrom(ids, i + 1, AddSkip(sk, ids[i]))

\* for f in <stack>: x, h = f(x, c); skips += h
Accumulate(g, k, sk) == AccumulateFrom(StackOf(g, k), 1, sk)

\* skips *= math.sqrt(1.0 / len(<stack>))
Rescale(g, k, sk) == [sk EXCEPT !.scale = Append(@, Len(StackOf(g, k)))]

\* variant of the reset below: the up stack goes on adding to the low sum
UpSkipsInit_carry(g, low) == low

\* Generator2.forward: skips = 0 again before the up stack
UpSkipsInit(g, low) == ZeroSkips(g)

\* variant of the check below: Generator2's check, without the factor
LengthCheck1_no_factor(cu, x) == cu = x

\* Generator1.forward: assert c.size(-1) * 4 == x.size(-1)
LengthCheck1(cu, x) == cu * 4 = x

\* Generator2.forward: assert c.size(-1) == x.size(-1)
LengthCheck2(cu, x) == cu = x

\* the shape of a result of forward
FwdResult(outcome, checked, cu, out_len, out_ch, skips) ==
    [outcome |-> outcome, checked |-> checked, cu |-> cu, out_len |-> out_len,
     out_ch |-> out_ch, skips |-> skips]

\* Generator1.forward(x, c): x the length of a (B, 1, T) input, c the length
\* of the conditioning or -1 for None
Generator1_forward(g, x, c) ==
    LET up == c # -1 /\ g.upsample_net # "None"
        cu == IF up THEN UpsampleNetLen(g, c) ELSE c
        xa == PQMF_analysis(x, g.subbands)
        h == StackLen(Len(g.dilations[1]), xa, cu)
        skips == Rescale(g, 1, Accumulate(g, 1, ZeroSkips(g)))
        xs == PQMF_synthesis(h, g.subbands)
        y1 == Conv1dLen(xs, g.kernel_size, 3)
        y2 == Conv1dLen(y1, g.kernel_size, 3)
    IN IF up /\ cu = -1 THEN FwdResult("RuntimeError", FALSE, -1, -1, -1, <<>>)
       ELSE IF up /\ ~LengthCheck1(cu, x) THEN FwdResult("AssertionError", TRUE, cu, -1, -1, <<>>)
       ELSE IF xa = -1 \/ g.in_channels # g.subbands \/ h = -1 \/ y1 = -1 \/ y2 = -1
       THEN FwdResult("RuntimeError", up, cu, -1, -1, <<>>)
       ELSE FwdResult("ok", up, cu, y2, 1, << skips >>)

\* Generator2.forward(x, c)
Generator2_forward(g, x, c) ==
    LET up == c # -1 /\ g.upsample_net # "None"
        cu == IF up THEN UpsampleNetLen(g, c) ELSE c
        h1 == StackLen(Len(g.dilations[1]), x, cu)
        low == Rescale(g, 1, Accumulate(g, 1, ZeroSkips(g)))
        h2 == StackLen(Len(g.dilations[2]), x, cu)
        upper == Rescale(g, 2, Accumulate(g, 2, UpSkipsInit(g, low)))
        w == (g.out_channels \div 2) + (g.out_channels \div 2)
    IN IF up /\ cu = -1 THEN FwdResult("RuntimeError", FALSE, -1, -1, -1, <<>>)
       ELSE IF up /\ ~LengthCheck2(cu, x) THEN FwdResult("AssertionError", TRUE, cu, -1, -1, <<>>)
       ELSE IF g.in_channels # 1 \/ h1 = -1 \/ h2 = -1 \/ w # g.subbands
       THEN FwdResult("RuntimeError", up, cu, -1, -1, <<>>)
       ELSE FwdResult("ok", up, cu, PQMF_synthesis(h1, g.subbands), 1,
                      << low, upper >>)

\* variant of the length below: the band factor left out
NoiseLen_no_bands(g, c) == c * g.upsample_factor

\* the length of the noise inference draws: len(c) * self.upsample_factor * 4
NoiseLen(g, c) == c * g.upsample_factor * 4

\* c after ReplicationPad1d(self.aux_context_window)
PaddedLen(g, c) == c + 2 * g.aux_context_window

\* the waveform lengths and conditioning lengths a caller tries
WaveLens(g) ==
    LET hop == IF g.cls = 1 THEN g.upsample_factor * g.subbands ELSE g.upsample_factor
    IN { n * m : n \in 1..MaxFrames, m \in {1, 4, hop} }

CondLens(g) ==
    { n + k : n \in 1..MaxFrames, k \in {0, 2 * g.aux_context_window} }

\* y = g(x, c), g a Generator1
Forward1(x, c) ==
    /\ gen.cls = 1
    /\ LET r == Generator1_forward(gen, x, c)
       IN ret' = [op |-> "forward", outcome |-> r.outcome, value |-> 0, x |-> x,
                  c |-> c, checked |-> r.checked, noise |-> FALSE, fwd_x |-> x,
                  fwd_c |-> c, cu |-> r.cu, out_len |-> r.out_len,
                  out_ch |-> r.out_ch, skips |-> r.skips]
    /\ UNCHANGED <<G1_upsample_params, G2_upsample_params, caller_params, gen, wn, init>>

\* y = g(x, c), g a Generator2
Forward2(x, c) ==
    /\ gen.cls = 2
    /\ LET r == Generator2_forward(gen, x, c)
       IN ret' = [op |-> "forward", outcome |-> r.outcome, value |-> 0, x |-> x,
                  c |-> c, checked |-> r.checked, noise |-> FALSE, fwd_x |-> x,
                  fwd_c |-> c, cu |-> r.cu, out_len |-> r.out_len,
                  out_ch |-> r.out_ch, skips |-> r.skips]
    /\ UNCHANGED <<G1_upsample_params, G2_upsample_params, caller_params, gen, wn, init>>

\* y = g.inference(c, x), g a Generator1; -1 for an omitted argument
Inference(c, x) ==
    /\ gen.cls = 1
    /\ LET noise == x = -1
           fx == IF x # -1 THEN x ELSE NoiseLen(gen, c)
           fc == IF c # -1 THEN PaddedLen(gen, c) ELSE -1
           r == Generator1_forward(gen, fx, fc)
       IN ret' = IF x = -1 /\ c = -1
                 THEN [NoRet EXCEPT !.op = "inference", !.outcome = "AssertionError"]
                 ELSE [op |-> "inference", outcome |-> r.outcome, value |-> 0,
                       x |-> x, c |-> c, checked |-> r.checked, noise |-> noise,
                       fwd_x |-> fx, fwd_c |-> fc, cu |-> r.cu,
                       out_len |-> r.out_len, out_ch |-> r.out_ch,
                       skips |-> r.skips]
    /\ UNCHANGED <<G1_upsample_params, G2_upsample_params, caller_params, gen, wn, init>>

(***************************************************************************)
(* Specifications.  Each draws the constructor arguments from the part of  *)
(* the configuration space its properties are about.                       *)
(***************************************************************************)
KernelSizes == {3, 5, 7}

\* Spec: configuration records and the weight-norm lifecycle
LifecycleArgs1 ==
    { [G1Defaults EXCEPT !.layers = 2, !.stacks = 1, !.use_weight_norm = u,
                         !.upsample_conditional_features = f, !.upsample_net = n,
                         !.aux_context_window = w, !.upsample_params = p] :
        u \in BOOLEAN, f \in {TRUE},
        n \in {"ConvInUpsampleNetwork", "UpsampleNetwork", "MelGANGenerator"},
        w \in {0, 2}, p \in {"default", "caller"} }

LifecycleArgs2 ==
    { [G2Defaults EXCEPT !.layers = <<2, 1>>, !.stacks = <<2, 1>>,
                         !.use_weight_norm = u, !.upsample_params = p] :
        u \in BOOLEAN, p \in {"default", "caller"} }

Construct1 == \E a \in LifecycleArgs1 : NewGenerator1(a)

Construct2 == \E a \in LifecycleArgs2 : NewGenerator2(a)

Next == Construct1 \/ Construct2 \/ RemoveWeightNorm \/ ApplyWeightNorm

Spec == Init /\ [][Next]_vars

\* SpecTopology: layers, stacks and kernel sizes
TopologyArgs1 ==
    { [G1Defaults EXCEPT !.layers = l, !.stacks = s, !.kernel_size = k] :
        l \in 1..MaxLayers, s \in 1..MaxStacks, k \in KernelSizes }
    \cup { G1Defaults }

TopologyArgs2 ==
    { [G2Defaults EXCEPT !.layers = <<l, l>>, !.stacks = <<s, s>>] :
        l \in 1..MaxLayers, s \in 1..MaxStacks }
    \cup { G2Defaults }

ConstructT1 == \E a \in TopologyArgs1 : NewGenerator1(a)

ConstructT2 == \E a \in TopologyArgs2 : NewGenerator2(a)

NextTopology == ConstructT1 \/ ConstructT2 \/ ReceptiveFieldSize

SpecTopology == Init /\ [][NextTopology]_vars

\* SpecForward: forward and inference
ForwardArgs1 ==
    { [G1Defaults EXCEPT !.layers = l, !.stacks = 1, !.kernel_size = k,
                         !.in_channels = i, !.upsample_conditional_features = f] :
        l \in 1..MaxBlocks, k \in {3, 7}, i \in {1, 4}, f \in BOOLEAN }

ForwardArgs2 ==
    { [G2Defaults EXCEPT !.layers = <<l, l + 1>>, !.stacks = <<l, l + 1>>] :
        l \in 1..MaxBlocks }

ConstructF1 == \E a \in ForwardArgs1 : NewGenerator1(a)

ConstructF2 == \E a \in ForwardArgs2 : NewGenerator2(a)

CallForward1 == \E x \in WaveLens(gen), c \in CondLens(gen) \cup {-1} : Forward1(x, c)

CallForward2 == \E x \in WaveLens(gen), c \in CondLens(gen) \cup {-1} : Forward2(x, c)

CallInference ==
    \E c \in CondLens(gen) \cup {-1}, x \in WaveLens(gen) \cup {-1} : Inference(c, x)

NextForward ==
    ConstructF1 \/ ConstructF2 \/ CallForward1 \/ CallForward2 \/ CallInference

SpecForward == Init /\ [][NextForward]_vars

(***************************************************************************)
(* Properties.                                                             *)
(***************************************************************************)
\* whether the last constructor call was given a layer count that its stack
\* count does not divide
IndivisibleArgs ==
    \/ init.cls = 1 /\ init.args.layers % init.args.stacks # 0
    \/ init.cls = 2 /\ \E k \in {1, 2} : init.args.layers[k] % init.args.stacks[k] # 0

\* C1: a constructor call (Generator1 or Generator2) whose layer count is not
\* divisible by the stack count fails with an assertion before any
\* sub-module is built, and no instance is created.
C1_IndivisibleRejected ==
    IndivisibleArgs =>
        /\ init.outcome = "AssertionError"
        /\ init.built = <<>>
        /\ gen.cls = 0

\* the stack count the last constructor call gave for the k-th residual stack
StacksArg(k) == IF init.cls = 1 THEN init.args.stacks ELSE init.args.stacks[k]

\* C2: in every residual stack built by either variant, block i has dilation
\* 2^(i mod (layers/stacks)): the sequence has period layers/stacks and
\* consists of stacks repeated cycles.
C2_DilationPeriod ==
    (init.outcome = "ok" /\ ~IndivisibleArgs) =>
        \A k \in 1..Len(gen.dilations) :
            LET n == Len(gen.dilations[k])
                period == n \div StacksArg(k)
            IN \A i \in 0..(n - 1) :
                   gen.dilations[k][i + 1] = 2 ^ (i % period)

\* whether the last call was a forward pass (directly or through inference)
\* that was handed conditioning
ForwardWithCond == ret.op \in {"forward", "inference"} /\ ret.fwd_c # -1 /\ ret.cu # -1

\* whether the conditioning length after the upsampling step differs from
\* what the variant requires for the waveform length forward received
Mismatch ==
    IF gen.cls = 1 THEN ret.cu * gen.subbands # ret.fwd_x ELSE ret.cu # ret.fwd_x

ConfiguredFactor(g) ==
    IF g.upsample_net = "None" THEN 1 ELSE Prod(g.upsample_kwargs["upsample_scales"])

\* C4: Generator1.inference given only conditioning of length T' hands
\* forward noise of length T' x upsample_factor x band_count; given a
\* waveform it draws no noise and hands forward that waveform.
C4_InferenceNoise ==
    (ret.op = "inference" /\ ret.fwd_x # -1) =>
        /\ (ret.x = -1) =>
              /\ ret.noise
              /\ ret.fwd_x = ret.c * ConfiguredFactor(gen) * gen.subbands
        /\ (ret.x # -1) => (~ret.noise /\ ret.fwd_x = ret.x)

\* C4: an inference call given only conditioning ran to the end on noise of
\* its own, with an upsampler configured
C4_Witness ==
    /\ ret.op = "inference" /\ ret.x = -1 /\ ret.c > 1 /\ ret.noise
    /\ gen.upsample_net # "None" /\ ret.outcome = "ok"
    /\ ret.fwd_x = ret.c * ConfiguredFactor(gen) * gen.subbands

\* C5: remove_weight_norm never fails, whatever mix of normalized and
\* never-normalized sub-modules it meets: it visits them all, leaves every
\* one plain, and a second call changes nothing.
C5_RemoveNeverFails ==
    [][RemoveWeightNorm =>
          /\ ret'.outcome = "ok"
          /\ DOMAIN wn' = 1..Len(ModulesOf(gen))
          /\ \A i \in DOMAIN wn' : wn'[i] = 0
          /\ (ret.op = "remove_weight_norm" => (wn' = wn /\ ret' = ret))]_vars

\* C5: remove_weight_norm has returned on an instance that was built with
\* weight norm on its convolutions and none on its other sub-modules
C5_Witness ==
    /\ ret.op = "remove_weight_norm" /\ ret.outcome = "ok"
    /\ init.outcome = "ok" /\ init.args.use_weight_norm
    /\ \E i \in DOMAIN init.calls : init.calls[i] = 1
    /\ \E i \in DOMAIN init.calls : init.calls[i] = 0
    /\ \A i \in DOMAIN wn : wn[i] = 0

\* C6: Generator1.receptive_field_size equals (kernel_size - 1) x (sum of the
\* dilations of the blocks actually built in conv_layers) + 1, for any number
\* of cycles; kernel_size 3, layers 6, stacks 3 gives 19.
C6_ReceptiveField ==
    (ret.op = "receptive_field_size" /\ gen.cls = 1) =>
        /\ ret.outcome = "ok"
        /\ ret.value = (gen.kernel_size - 1) * SumSeq(gen.dilations[1]) + 1
        /\ (gen.kernel_size = 3 /\ gen.layers = 6 /\ gen.stacks = 3) => ret.value = 19

\* C6: the property was read on a generator with kernel size 3, 6 layers and
\* 3 stacks
C6_Witness ==
    /\ ret.op = "receptive_field_size" /\ gen.cls = 1
    /\ gen.kernel_size = 3 /\ gen.layers = 6 /\ gen.stacks = 3
    /\ gen.dilations[1] = <<1, 2, 1, 2, 1, 2>>
    /\ ret.value = 19

\* C7: Generator1.forward on an input of length T returns an output of time
\* length exactly T with out_channels channels, for every kernel_size.
C7_ForwardKeepsLength ==
    (ret.op = "forward" /\ gen.cls = 1 /\ ret.outcome = "ok") =>
        /\ ret.out_len = ret.x
        /\ ret.out_ch = gen.out_channels

\* C8: the aggregated skip handed to each output head is the sum of the skip
\* contributions of the blocks of that stack, each counted once, multiplied
\* once by 1/sqrt(N), N the number of blocks of that stack; nothing of
\* Generator2's low stack enters the up stack's aggregate.
C8_SkipAggregate ==
    (ret.op \in {"forward", "inference"} /\ ret.outcome = "ok") =>
        /\ Len(ret.skips) = Len(gen.dilations)
        /\ \A k \in 1..Len(ret.skips) :
              LET n == Len(gen.dilations[k])
                  first == IF k = 1 THEN 1 ELSE Len(gen.dilations[1]) + 1
              IN /\ ret.skips[k].scale = << n >>
                 /\ DOMAIN ret.skips[k].coef = 1..NumBlocks(gen)
                 /\ \A b \in DOMAIN ret.skips[k].coef :
                        ret.skips[k].coef[b] =
                            IF first <= b /\ b < first + n THEN 1 ELSE 0

\* C8: a Generator2 forward pass returned, its two stacks of different sizes
C8_Witness ==
    /\ ret.op = "forward" /\ ret.outcome = "ok" /\ gen.cls = 2
    /\ ret.fwd_c # -1
    /\ Len(ret.skips) = 2
    /\ Len(gen.dilations[1]) > 1
    /\ Len(gen.dilations[1]) # Len(gen.dilations[2])

\* C9: a construction with use_weight_norm attaches weight normalization to
\* every convolution sub-module the generator owns, those of the upsampling
\* network included, exactly once, whichever upsample_net is chosen; without
\* use_weight_norm nothing is attached.
C9_WeightNormOnce ==
    /\ init.outcome # "RuntimeError"
    /\ \A i \in DOMAIN init.calls : init.calls[i] <= 1
    /\ init.outcome = "ok" =>
          LET mods == ModulesOf(gen)
          IN /\ DOMAIN init.calls = 1..Len(mods)
             /\ \A i \in 1..Len(mods) :
                    init.calls[i] =
                        IF mods[i].conv /\ init.args.use_weight_norm THEN 1 ELSE 0

\* C9: a Generator1 was built with use_weight_norm and a MelGANGenerator
\* upsampler, whose convolution got its weight norm from the generator
C9_Witness ==
    /\ init.outcome = "ok" /\ init.cls = 1 /\ init.args.use_weight_norm
    /\ init.args.upsample_net = "MelGANGenerator"
    /\ \E i \in DOMAIN init.calls :
          ModulesOf(gen)[i].name = "upsample_net.conv" /\ init.calls[i] = 1

\* C10: constructing a generator leaves the upsample_params it was given, or
\* the default it used, with the keys and values it had before.
C10_ParamsUnchanged ==
    /\ G1_upsample_params = DefaultUpsampleParams
    /\ G2_upsample_params = DefaultUpsampleParams
    /\ caller_params = CallerUpsampleParams

====
